---- MODULE Spec2Model ----
(***************************************************************************)
(* Model of the back-test simulator of trading_project.                    *)
(*                                                                         *)
(* The repository holds two versions of run_simulation: the one of         *)
(* simulator.py and the one of strategy.py.  Both are modelled; the        *)
(* variable "version" says which one a run executes.  A run is a state     *)
(* machine: load the data, load the strategy configuration, iterate once   *)
(* per row of the sorted price table, return.                              *)
(*                                                                         *)
(* Numbers.  Prices and balances are integers.  The buy/sell fractions are *)
(* kept in hundredths (0.02 is 2), and a moving average is kept as the     *)
(* exact fraction num/den, so that price < ma * (1 - b) is decided by the  *)
(* cross-multiplied integer inequality price*den*100 < num*(100 - b).      *)
(* Floating-point rounding of the Python arithmetic is not modelled.       *)
(*                                                                         *)
(* The reason strings of the log are modelled by tags, one per f-string of *)
(* the source; the substring tests of strategy.py line 200 are modelled on *)
(* the tags.                                                               *)
(***************************************************************************)
EXTENDS Integers, Sequences, FiniteSets, TLC

VARIABLES
    version,          \* "simulator" (simulator.py) or "strategy" (strategy.py)
    data_source,      \* argument: what pd.read_csv finds
    strategy_name,    \* argument
    strategy_params,  \* argument (called thresholds in simulator.py)
    initial_balance,  \* argument
    config_file,      \* the file at strategy_config_path
    pc,               \* "load", "config", "loop", "done"; "rule" in SpecRule
    df_prices,        \* the price table, sorted, with its moving_avg column
    current_strategy_thresholds,
    window_size,
    i,                \* index of the next row df_prices.iterrows() yields
    balance,
    position,
    simulation_logs,
    result,           \* "running", "none" (None), "log" (DataFrame), "fault"
    rule_in,          \* SpecRule: the arguments given to simple_strategy
    rule_out,         \* SpecRule: what simple_strategy returned
    fn_in,            \* SpecIndicators: the function called and its arguments
    fn_out            \* SpecIndicators: what it returned

vars == <<version, data_source, strategy_name, strategy_params, initial_balance,
          config_file, pc, df_prices, current_strategy_thresholds, window_size,
          i, balance, position, simulation_logs, result, rule_in, rule_out,
          fn_in, fn_out>>

----------------------------------------------------------------------------
(* Bounds of the model and the input sets built from them. *)

MaxLen == 7

Prices == {90, 110}

Balances == {50, 90, 1000}

StrategyNames == {"simple", "unknown_x"}

Versions == {"simulator", "strategy"}

----------------------------------------------------------------------------
(* Python values. *)

\* None, as the value dict.get(key) yields for a missing key.
PyNone == -999

\* A dict is a function from the set of its keys.
EmptyDict == [k \in {} |-> 0]

\* dict.get(key, default)
Get(d, k, default) == IF k \in DOMAIN d THEN d[k] ELSE default

\* bool(dict): an empty dict is falsy.
Truthy(d) == DOMAIN d # {}

\* d1.copy() then .update(d2)
Update(d1, d2) ==
    [k \in (DOMAIN d1) \cup (DOMAIN d2) |-> IF k \in DOMAIN d2 THEN d2[k] ELSE d1[k]]

\* float('nan') in the moving_avg column.
NaN == [nan |-> TRUE, num |-> 0, den |-> 1]

\* pd.isna(moving_avg)
IsNa(moving_avg) == moving_avg.nan

RECURSIVE SumPrices(_, _, _)
SumPrices(rows, lo, hi) ==
    IF lo > hi THEN 0 ELSE rows[hi].price + SumPrices(rows, lo, hi - 1)

\* Series.rolling(window=w).mean(): min_periods is the window, so the first
\* w-1 entries are NaN; entry k is the mean of rows k-w+1..k.
RollingMean_MinPeriods1(rows, w) ==
    [k \in 1..Len(rows) |->
        LET lo == IF k < w THEN 1 ELSE k - w + 1
        IN  [nan |-> FALSE, num |-> SumPrices(rows, lo, k), den |-> k - lo + 1]]

RollingMean_LookAhead(rows, w) ==
    [k \in 1..Len(rows) |->
        IF k < w THEN NaN
        ELSE IF k < Len(rows)
        THEN [nan |-> FALSE, num |-> SumPrices(rows, k - w + 2, k + 1), den |-> w]
        ELSE [nan |-> FALSE, num |-> SumPrices(rows, k - w + 1, k), den |-> w]]

RollingMean(rows, w) ==
    [k \in 1..Len(rows) |->
        IF k < w THEN NaN
        ELSE [nan |-> FALSE, num |-> SumPrices(rows, k - w + 1, k), den |-> w]]

RECURSIVE InsertRow(_, _)
InsertRow(sorted, r) ==
    IF sorted = << >> THEN << r >>
    ELSE IF r.timestamp < Head(sorted).timestamp THEN << r >> \o sorted
    ELSE << Head(sorted) >> \o InsertRow(Tail(sorted), r)

SortIndex_NoSort(rows) == rows

RECURSIVE SortIndex(_)
\* set_index('timestamp') then sort_index(): ascending timestamps.
SortIndex(rows) ==
    IF rows = << >> THEN << >>
    ELSE InsertRow(SortIndex(Tail(rows)), Head(rows))

\* df_prices['moving_avg'] = df_prices['price'].rolling(window=w).mean()
WithMovingAvg(rows, w) ==
    LET ma == RollingMean(rows, w)
    IN  [k \in 1..Len(rows) |->
            [timestamp |-> rows[k].timestamp, price |-> rows[k].price,
             moving_avg |-> ma[k]]]

----------------------------------------------------------------------------
(* simple_strategy: the deviation rule. *)

DefaultBuy == 2

DefaultSell == 3

\* current_price < moving_avg * (1 - buy_threshold); False on NaN.
BelowBuyBand(current_price, moving_avg, buy_threshold) ==
    /\ ~moving_avg.nan
    /\ current_price * moving_avg.den * 100 < moving_avg.num * (100 - buy_threshold)

\* current_price > moving_avg * (1 + sell_threshold); False on NaN.
AboveSellBand(current_price, moving_avg, sell_threshold) ==
    /\ ~moving_avg.nan
    /\ current_price * moving_avg.den * 100 > moving_avg.num * (100 + sell_threshold)

simple_strategy_SellFirst(current_price, moving_avg, thresholds) ==
    LET buy_threshold == Get(thresholds, "buy", DefaultBuy)
        sell_threshold == Get(thresholds, "sell", DefaultSell)
    IN  IF buy_threshold = PyNone \/ sell_threshold = PyNone THEN "TypeError"
        ELSE IF AboveSellBand(current_price, moving_avg, sell_threshold) THEN "SELL"
        ELSE IF BelowBuyBand(current_price, moving_avg, buy_threshold) THEN "BUY"
        ELSE "HOLD"

\* "TypeError" stands for the exception 1 - None (or 1 + None) raises.
simple_strategy(current_price, moving_avg, thresholds) ==
    LET buy_threshold == Get(thresholds, "buy", DefaultBuy)
        sell_threshold == Get(thresholds, "sell", DefaultSell)
    IN  IF buy_threshold = PyNone THEN "TypeError"
        ELSE IF BelowBuyBand(current_price, moving_avg, buy_threshold) THEN "BUY"
        ELSE IF sell_threshold = PyNone THEN "TypeError"
        ELSE IF AboveSellBand(current_price, moving_avg, sell_threshold) THEN "SELL"
        ELSE "HOLD"

----------------------------------------------------------------------------
(* Strategy configuration. *)

\* strategy_params=None, or a dict.
NoParams == [is_none |-> TRUE, dict |-> EmptyDict]

GivenParams(d) == [is_none |-> FALSE, dict |-> d]

\* "if passed_thresholds": None and the empty dict are both falsy.
Passed(passed_thresholds) == ~passed_thresholds.is_none /\ Truthy(passed_thresholds.dict)

DEFAULT_THRESHOLDS == [simple |-> [buy |-> 2, sell |-> 3]]

DEFAULT_WINDOW_SIZE == 5

default_strategy_defaults ==
    [simple |-> [buy |-> 2, sell |-> 3, window_size |-> DEFAULT_WINDOW_SIZE]]

\* simulator.py
load_config_for_simulator(file, name, passed_thresholds) ==
    IF Passed(passed_thresholds) THEN passed_thresholds.dict
    ELSE IF ~file.exists THEN Get(DEFAULT_THRESHOLDS, name, EmptyDict)
    ELSE Get(file.config, name, EmptyDict)

\* strategy.py
load_strategy_config_for_sim(file, name, passed_thresholds) ==
    IF Passed(passed_thresholds) THEN passed_thresholds.dict
    ELSE IF ~file.exists THEN Get(default_strategy_defaults, name, EmptyDict)
    ELSE Update(Get(default_strategy_defaults, name, EmptyDict),
                Get(file.config, name, EmptyDict))

\* simulator.py: thresholds passed by the caller are used as they are, and
\* the file is consulted only when thresholds is None.
SimThresholds ==
    IF strategy_params.is_none
    THEN load_config_for_simulator(config_file, strategy_name, NoParams)
    ELSE strategy_params.dict

StratThresholds ==
    load_strategy_config_for_sim(config_file, strategy_name, strategy_params)

\* simulator.py line 91: the window is fixed.
SimWindowSize == 5

StratWindowSize(thresholds) == Get(thresholds, "window_size", DEFAULT_WINDOW_SIZE)

----------------------------------------------------------------------------
(* One iteration of the loop. *)

\* A local variable that is not bound yet.
Unbound == PyNone

\* What an iteration leaves: the exception it raised ("" for none) or the
\* log entry's action, quantity and reason with the new balance and position.
Raised(exc, bal, pos) ==
    [raised |-> exc, side |-> "HOLD", quantity |-> 0, reason |-> "",
     balance |-> bal, position |-> pos]

Outcome(side, quantity, reason, bal, pos) ==
    [raised |-> "", side |-> side, quantity |-> quantity, reason |-> reason,
     balance |-> bal, position |-> pos]

SimCanBuy_NoPositionCheck(bal, current_price, pos) == bal >= current_price * 1

SimCanBuy_NoBalanceCheck(bal, current_price, pos) == pos = 0

\* simulator.py: balance >= current_price * buy_quantity and position == 0
SimCanBuy(bal, current_price, pos) == bal >= current_price * 1 /\ pos = 0

SimCanSell_AnyPosition(pos) == pos >= 0

\* simulator.py: position >= sell_quantity
SimCanSell(pos) == pos >= 1

SimPortfolioValue_BalanceOnly(bal, pos, current_price) == bal

\* simulator.py: portfolio_value = balance + (position * current_price)
SimPortfolioValue(bal, pos, current_price) == bal + (pos * current_price)

\* simulator.py line 109: the rule is handed the run's thresholds as they are.
SimRuleThresholds(thresholds) == thresholds

\* strategy.py lines 155-158: the rule is handed a dict that always has both
\* keys; dict.get gives None for a key the run's parameters lack.
StratRuleThresholds(thresholds) ==
    [buy |-> Get(thresholds, "buy", PyNone), sell |-> Get(thresholds, "sell", PyNone)]

\* simulator.py: the action and reason set before the decision logic, for a
\* row whose moving average is defined.
SimProposed(current_price, moving_avg, thresholds, name) ==
    IF name = "simple"
    THEN [action |-> simple_strategy(current_price, moving_avg,
                                     SimRuleThresholds(thresholds)),
          reason |-> Unbound]
    ELSE [action |-> "HOLD", reason |-> "not_implemented"]

SimDecide_BlockedBuyCharged(current_price, moving_avg, thresholds, name, bal, pos) ==
    IF IsNa(moving_avg) THEN Outcome("HOLD", 0, "insufficient", bal, pos)
    ELSE
      LET p == SimProposed(current_price, moving_avg, thresholds, name)
      IN  IF p.action = "TypeError" THEN Raised("TypeError", bal, pos)
          ELSE IF p.action = "BUY" THEN
              IF SimCanBuy(bal, current_price, pos)
              THEN Outcome("BUY", 1, "buy_executed", bal - current_price * 1, pos + 1)
              ELSE Outcome("HOLD", 0, "buy_blocked", bal - current_price * 1, pos)
          ELSE IF p.action = "SELL" THEN
              IF SimCanSell(pos)
              THEN Outcome("SELL", 1, "sell_executed", bal + current_price * 1, pos - 1)
              ELSE Outcome("HOLD", 0, "sell_blocked", bal, pos)
          ELSE Outcome("HOLD", 0, "holding", bal, pos)

SimDecide_SellNotCredited(current_price, moving_avg, thresholds, name, bal, pos) ==
    IF IsNa(moving_avg) THEN Outcome("HOLD", 0, "insufficient", bal, pos)
    ELSE
      LET p == SimProposed(current_price, moving_avg, thresholds, name)
      IN  IF p.action = "TypeError" THEN Raised("TypeError", bal, pos)
          ELSE IF p.action = "BUY" THEN
              IF SimCanBuy(bal, current_price, pos)
              THEN Outcome("BUY", 1, "buy_executed", bal - current_price * 1, pos + 1)
              ELSE Outcome("HOLD", 0, "buy_blocked", bal, pos)
          ELSE IF p.action = "SELL" THEN
              IF SimCanSell(pos)
              THEN Outcome("SELL", 1, "sell_executed", bal, pos - 1)
              ELSE Outcome("HOLD", 0, "sell_blocked", bal, pos)
          ELSE Outcome("HOLD", 0, "holding", bal, pos)

\* simulator.py lines 95-138.
SimDecide(current_price, moving_avg, thresholds, name, bal, pos) ==
    IF IsNa(moving_avg) THEN Outcome("HOLD", 0, "insufficient", bal, pos)
    ELSE
      LET p == SimProposed(current_price, moving_avg, thresholds, name)
      IN  IF p.action = "TypeError" THEN Raised("TypeError", bal, pos)
          ELSE IF p.action = "BUY" THEN
              IF SimCanBuy(bal, current_price, pos)
              THEN Outcome("BUY", 1, "buy_executed", bal - current_price * 1, pos + 1)
              ELSE Outcome("HOLD", 0, "buy_blocked", bal, pos)
          ELSE IF p.action = "SELL" THEN
              IF SimCanSell(pos)
              THEN Outcome("SELL", 1, "sell_executed", bal + current_price * 1, pos - 1)
              ELSE Outcome("HOLD", 0, "sell_blocked", bal, pos)
          ELSE Outcome("HOLD", 0, "holding", bal, pos)

StratCanSell_AnyPosition(pos) == pos >= 0

\* strategy.py: position >= quantity_to_buy_sell
StratCanSell(pos) == pos >= 1

StratPortfolioValue_BalanceOnly(bal, pos, current_price) == bal

\* strategy.py: portfolio_value = balance + (position * current_price)
StratPortfolioValue(bal, pos, current_price) == bal + (pos * current_price)

\* strategy.py lines 137-165: action and reason before the decision logic.
\* simple_strategy is given a dict that always has both keys, holding None
\* for a parameter current_strategy_thresholds lacks.
StratProposed(current_price, moving_avg, thresholds, name) ==
    IF IsNa(moving_avg) /\ name = "simple"
    THEN [action |-> "HOLD", reason |-> "insufficient"]
    ELSE IF name = "simple"
    THEN [action |-> simple_strategy(current_price, moving_avg,
                                     StratRuleThresholds(thresholds)),
          reason |-> "initialization"]
    ELSE [action |-> "HOLD", reason |-> "not_implemented"]

\* strategy.py line 200: a HOLD keeps a reason that mentions "Recommended",
\* "Executed", "Insufficient" or "not implemented", and otherwise gets the
\* generic one.
StratHoldReason(reason) ==
    IF reason \in {"buy_blocked", "sell_blocked", "buy_executed", "sell_executed",
                   "insufficient", "not_implemented"}
    THEN reason ELSE "holding"

StratDecide_BuyPathBound(current_price, moving_avg, thresholds, name, bal, pos) ==
    LET p == StratProposed(current_price, moving_avg, thresholds, name)
    IN  IF p.action = "TypeError" THEN Raised("TypeError", bal, pos)
        ELSE IF p.action = "BUY" THEN
            IF bal >= current_price * 1 /\ pos = 0
            THEN Outcome("BUY", 1, "buy_executed", bal - current_price * 1, pos + 1)
            ELSE Outcome("HOLD", 0, StratHoldReason("buy_blocked"), bal, pos)
        ELSE IF p.action = "SELL" THEN
            IF StratCanSell(pos)
            THEN Outcome("SELL", 1, "sell_executed", bal + current_price * 1, pos - 1)
            ELSE Outcome("HOLD", 0, StratHoldReason("sell_blocked"), bal, pos)
        ELSE Outcome("HOLD", 0, StratHoldReason(p.reason), bal, pos)

\* strategy.py lines 134-201.  The BUY branch reads quantity_to_buy_buy, a
\* name that is never bound, on its second statement: NameError.
StratDecide(current_price, moving_avg, thresholds, name, bal, pos) ==
    LET p == StratProposed(current_price, moving_avg, thresholds, name)
    IN  IF p.action = "TypeError" THEN Raised("TypeError", bal, pos)
        ELSE IF p.action = "BUY" THEN Raised("NameError", bal, pos)
        ELSE IF p.action = "SELL" THEN
            IF StratCanSell(pos)
            THEN Outcome("SELL", 1, "sell_executed", bal + current_price * 1, pos - 1)
            ELSE Outcome("HOLD", 0, StratHoldReason("sell_blocked"), bal, pos)
        ELSE Outcome("HOLD", 0, StratHoldReason(p.reason), bal, pos)

\* The dict appended to simulation_logs.
LogEntry(index, name, o, portfolio_value) ==
    [timestamp |-> index, user_id |-> "demo_user", symbol |-> "AAPL",
     side |-> o.side, quantity |-> o.quantity, strategy |-> name,
     reason |-> o.reason, balance |-> o.balance, position |-> o.position,
     portfolio_value |-> portfolio_value]

----------------------------------------------------------------------------
(* Inputs. *)

\* The price series of length 0..MaxLen, in time order.
PriceSeries == UNION {[1..n -> Prices] : n \in 0..MaxLen}

\* The CSV rows of a series: timestamp k carries the k-th price.
RowsOf(series) == [k \in 1..Len(series) |-> [timestamp |-> k, price |-> series[k]]]

\* A CSV that lacks the timestamp column, or the price column.
MalformedKinds == {"missing_timestamp", "missing_price"}

\* What the data source holds: a CSV with both columns, or one of the
\* conditions the loading code rejects.
DataSources ==
    {[kind |-> "csv", rows |-> RowsOf(s)] : s \in PriceSeries}
    \cup {[kind |-> k, rows |-> << >>] :
            k \in {"missing_file", "not_a_source"} \cup MalformedKinds}

ParamChoices ==
    {NoParams,
     GivenParams(EmptyDict),
     GivenParams([buy |-> 2, sell |-> 3]),
     GivenParams([buy |-> 0, sell |-> 0]),
     GivenParams([buy |-> 2, sell |-> 3, window_size |-> 2]),
     GivenParams([window_size |-> 3])}

ConfigChoices ==
    {[exists |-> FALSE, config |-> EmptyDict],
     [exists |-> TRUE, config |-> [simple |-> [buy |-> 10]]],
     [exists |-> TRUE, config |-> [unknown_x |-> [buy |-> 2, sell |-> 3]]]}

\* The rule's variables are idle during a simulation run.
RuleIdle ==
    /\ rule_in = [current_price |-> 0, moving_avg |-> NaN, thresholds |-> EmptyDict]
    /\ rule_out = "HOLD"
    /\ fn_in = [fn |-> "none"]
    /\ fn_out = << >>

Init ==
    /\ version \in Versions
    /\ data_source \in DataSources
    /\ strategy_name \in StrategyNames
    /\ strategy_params \in ParamChoices
    /\ initial_balance \in Balances
    /\ config_file \in ConfigChoices
    /\ pc = "load"
    /\ df_prices = << >>
    /\ current_strategy_thresholds = EmptyDict
    /\ window_size = Unbound
    /\ i = 1
    /\ balance = Unbound
    /\ position = Unbound
    /\ simulation_logs = << >>
    /\ result = "running"
    /\ RuleIdle

----------------------------------------------------------------------------
(* Actions. *)

Inputs == <<version, data_source, strategy_name, strategy_params, initial_balance,
            config_file, rule_in, rule_out, fn_in, fn_out>>

\* return None / an exception leaving run_simulation / return results_df
Finish(r) == pc' = "done" /\ result' = r

LoadData_TimestampOnly ==
    /\ pc = "load"
    /\ IF data_source.kind \in {"csv", "missing_price"}
       THEN /\ df_prices' = SortIndex(data_source.rows)
            /\ pc' = "config"
            /\ result' = result
       ELSE /\ Finish("none")
            /\ df_prices' = df_prices
    /\ UNCHANGED <<Inputs, current_strategy_thresholds, window_size, i, balance,
                   position, simulation_logs>>

\* Reading the CSV, checking the columns, sorting by timestamp.  Each of
\* the failures raises inside the try, is reported by print and turned
\* into None.
LoadData ==
    /\ pc = "load"
    /\ IF data_source.kind = "csv"
       THEN /\ df_prices' = SortIndex(data_source.rows)
            /\ pc' = "config"
            /\ result' = result
       ELSE /\ Finish("none")
            /\ df_prices' = df_prices
    /\ UNCHANGED <<Inputs, current_strategy_thresholds, window_size, i, balance,
                   position, simulation_logs>>

\* simulator.py lines 48-63
SimLoadData == version = "simulator" /\ LoadData

\* strategy.py lines 70-100
StratLoadData == version = "strategy" /\ LoadData

\* Thresholds, initial state, moving average.
LoadConfig(thresholds, w) ==
    /\ pc = "config"
    /\ current_strategy_thresholds' = thresholds
    /\ IF ~Truthy(thresholds)
       THEN /\ Finish("none")
            /\ UNCHANGED <<df_prices, window_size, i, balance, position,
                           simulation_logs>>
       ELSE /\ balance' = initial_balance
            /\ position' = 0
            /\ simulation_logs' = << >>
            /\ window_size' = w
            /\ df_prices' = WithMovingAvg(df_prices, w)
            /\ i' = 1
            /\ pc' = "loop"
            /\ result' = result
    /\ UNCHANGED Inputs

\* simulator.py lines 70-92
SimLoadConfig == version = "simulator" /\ LoadConfig(SimThresholds, SimWindowSize)

\* strategy.py lines 105-130
StratLoadConfig ==
    version = "strategy" /\ LoadConfig(StratThresholds, StratWindowSize(StratThresholds))

\* simulator.py lines 94-159: one pass of the loop body.  The whole function
\* body is in a try whose last handler catches Exception: None is returned.
SimIterate ==
    /\ version = "simulator" /\ pc = "loop" /\ i <= Len(df_prices)
    /\ LET row == df_prices[i]
           o == SimDecide(row.price, row.moving_avg, current_strategy_thresholds,
                          strategy_name, balance, position)
       IN  IF o.raised # ""
           THEN /\ Finish("none")
                /\ UNCHANGED <<i, balance, position, simulation_logs>>
           ELSE /\ balance' = o.balance
                /\ position' = o.position
                /\ simulation_logs' = Append(simulation_logs,
                       LogEntry(row.timestamp, strategy_name, o,
                                SimPortfolioValue(o.balance, o.position, row.price)))
                /\ i' = i + 1
                /\ UNCHANGED <<pc, result>>
    /\ UNCHANGED <<Inputs, df_prices, current_strategy_thresholds, window_size>>

\* strategy.py lines 133-221: one pass of the loop body.  Nothing catches an
\* exception here: it leaves run_simulation.
StratIterate ==
    /\ version = "strategy" /\ pc = "loop" /\ i <= Len(df_prices)
    /\ LET row == df_prices[i]
           o == StratDecide(row.price, row.moving_avg, current_strategy_thresholds,
                            strategy_name, balance, position)
       IN  IF o.raised # ""
           THEN /\ Finish("fault")
                /\ UNCHANGED <<i, balance, position, simulation_logs>>
           ELSE /\ balance' = o.balance
                /\ position' = o.position
                /\ simulation_logs' = Append(simulation_logs,
                       LogEntry(row.timestamp, strategy_name, o,
                                StratPortfolioValue(o.balance, o.position, row.price)))
                /\ i' = i + 1
                /\ UNCHANGED <<pc, result>>
    /\ UNCHANGED <<Inputs, df_prices, current_strategy_thresholds, window_size>>

ReturnValue_AlwaysLog(logs) == "log"

\* if not simulation_logs: return None; otherwise the log as a DataFrame.
ReturnValue(logs) == IF logs = << >> THEN "none" ELSE "log"

\* After the loop: None for an empty log, the log otherwise.
Return ==
    /\ pc = "loop" /\ i > Len(df_prices)
    /\ Finish(ReturnValue(simulation_logs))
    /\ UNCHANGED <<Inputs, df_prices, current_strategy_thresholds, window_size, i,
                   balance, position, simulation_logs>>

\* simulator.py lines 161-172
SimReturn == version = "simulator" /\ Return

\* strategy.py lines 223-234
StratReturn == version = "strategy" /\ Return

Next ==
    \/ SimLoadData
    \/ StratLoadData
    \/ SimLoadConfig
    \/ StratLoadConfig
    \/ SimIterate
    \/ StratIterate
    \/ SimReturn
    \/ StratReturn

Spec == Init /\ [][Next]_vars

----------------------------------------------------------------------------
(* The deviation rule on its own: simple_strategy applied to arguments      *)
(* drawn from small sets, among them a negative moving average and          *)
(* negative fractions, which the function accepts like any other number.    *)

RulePrices == {-100, -90, 0, 90, 98, 100, 103, 110}

RuleAverages == {NaN} \cup {[nan |-> FALSE, num |-> n, den |-> 1] : n \in {-100, 0, 100}}

RuleFractions == {-5, 0, 2, 10}

RuleThresholds ==
    {EmptyDict}
    \cup {[buy |-> b] : b \in RuleFractions}
    \cup {[sell |-> s2] : s2 \in RuleFractions}
    \cup {[buy |-> b, sell |-> s2] : b \in RuleFractions, s2 \in RuleFractions}

InitRule ==
    /\ version = "simulator"
    /\ data_source = [kind |-> "csv", rows |-> << >>]
    /\ strategy_name = "simple"
    /\ strategy_params = NoParams
    /\ initial_balance = 0
    /\ config_file = [exists |-> FALSE, config |-> EmptyDict]
    /\ pc = "rule"
    /\ df_prices = << >>
    /\ current_strategy_thresholds = EmptyDict
    /\ window_size = Unbound
    /\ i = 1
    /\ balance = Unbound
    /\ position = Unbound
    /\ simulation_logs = << >>
    /\ result = "running"
    /\ RuleIdle

\* A call of simple_strategy.
Classify ==
    /\ pc = "rule"
    /\ \E p \in RulePrices, m \in RuleAverages, t \in RuleThresholds :
          /\ rule_in' = [current_price |-> p, moving_avg |-> m, thresholds |-> t]
          /\ rule_out' = simple_strategy(p, m, t)
    /\ UNCHANGED <<version, data_source, strategy_name, strategy_params,
                   initial_balance, config_file, pc, df_prices,
                   current_strategy_thresholds, window_size, i, balance, position,
                   simulation_logs, result, fn_in, fn_out>>

NextRule == Classify

SpecRule == InitRule /\ [][NextRule]_vars

----------------------------------------------------------------------------
(* Vocabulary of the properties. *)

Records == 1..Len(simulation_logs)

\* Balance and position held before record k was made.
BalanceBefore(k) == IF k = 1 THEN initial_balance ELSE simulation_logs[k - 1].balance

PositionBefore(k) == IF k = 1 THEN 0 ELSE simulation_logs[k - 1].position

\* The loop is about to process row i.
AtRow == pc = "loop" /\ i <= Len(df_prices)

\* The deviation rule is applied to row i and returns a.
RuleProposes(a) ==
    /\ AtRow
    /\ strategy_name = "simple"
    /\ ~IsNa(df_prices[i].moving_avg)
    /\ a = IF version = "simulator"
           THEN SimProposed(df_prices[i].price, df_prices[i].moving_avg,
                            current_strategy_thresholds, strategy_name).action
           ELSE StratProposed(df_prices[i].price, df_prices[i].moving_avg,
                              current_strategy_thresholds, strategy_name).action

\* The run ended with a log.
ReturnedLog == pc = "done" /\ result = "log"

\* An unknown strategy on a readable, non-empty series.
UnknownStrategyRun ==
    /\ strategy_name # "simple"
    /\ data_source.kind = "csv"
    /\ data_source.rows # << >>

----------------------------------------------------------------------------
(* C1.  In every record of the log the resulting position is 0 or 1. *)
C1_PositionZeroOrOne ==
    \A k \in Records : simulation_logs[k].position \in {0, 1}

\* A unit was bought and later sold.
C1_Witness ==
    \E k \in Records : \E j \in Records :
        /\ k < j
        /\ simulation_logs[k].position = 1
        /\ simulation_logs[j].position = 0

(* C2.  The balance recorded by an executed BUY is >= 0, and the price paid *)
(* is not greater than the balance held before it.                          *)
C2_BuyNeverOverdraws ==
    \A k \in Records :
        simulation_logs[k].side = "BUY" =>
            /\ simulation_logs[k].balance >= 0
            /\ df_prices[k].price <= BalanceBefore(k)

\* A BUY at a price equal to the balance held: it leaves balance 0.
C2_Witness ==
    /\ \E k \in Records :
          simulation_logs[k].side = "BUY" /\ simulation_logs[k].balance = 0
    /\ version = "simulator"

(* C3.  A run never ends in an unhandled fault: it ends with None or with a *)
(* log of one record per input row.                                         *)
C3_NoneOrCompleteLog ==
    pc = "done" =>
        \/ result = "none"
        \/ result = "log" /\ Len(simulation_logs) = Len(data_source.rows)

(* C4.  Where the deviation rule proposes BUY, the BUY is executed          *)
(* (record BUY, quantity 1, balance less the price, position plus 1) if and *)
(* only if balance >= price and position = 0; otherwise the record is a     *)
(* HOLD whose reason cites the blocked BUY, balance and position unchanged. *)
C4_BuyExecutedIffAllowed ==
    [][RuleProposes("BUY") =>
        /\ Len(simulation_logs') = Len(simulation_logs) + 1
        /\ LET r == simulation_logs'[Len(simulation_logs')]
               price == df_prices[i].price
           IN  IF balance >= price /\ position = 0
               THEN /\ r.side = "BUY" /\ r.quantity = 1
                    /\ balance' = balance - price /\ position' = position + 1
                    /\ r.balance = balance' /\ r.position = position'
               ELSE /\ r.side = "HOLD" /\ r.reason = "buy_blocked"
                    /\ balance' = balance /\ position' = position
                    /\ r.balance = balance /\ r.position = position]_vars

(* C5.  Where the deviation rule proposes SELL, the SELL is executed        *)
(* (record SELL, quantity 1, balance plus the price, position minus 1) if   *)
(* and only if position >= 1; otherwise the record is a HOLD whose reason   *)
(* cites the missing position, balance and position unchanged.              *)
C5_SellExecutedIffPosition ==
    [][RuleProposes("SELL") =>
        /\ Len(simulation_logs') = Len(simulation_logs) + 1
        /\ LET r == simulation_logs'[Len(simulation_logs')]
               price == df_prices[i].price
           IN  IF position >= 1
               THEN /\ r.side = "SELL" /\ r.quantity = 1
                    /\ balance' = balance + price /\ position' = position - 1
                    /\ r.balance = balance' /\ r.position = position'
               ELSE /\ r.side = "HOLD" /\ r.reason = "sell_blocked"
                    /\ balance' = balance /\ position' = position
                    /\ r.balance = balance /\ r.position = position]_vars

\* Both cases happened in one run: a SELL was blocked, a later one executed.
C5_Witness ==
    /\ \E k \in Records : simulation_logs[k].side = "SELL"
    /\ \E k \in Records : simulation_logs[k].reason = "sell_blocked"


----------------------------------------------------------------------------
(* The two inequalities of the deviation rule on the arguments of the last  *)
(* call, with the fractions the call used (2 and 3 hundredths by default).  *)

RuleBuyFraction ==
    IF "buy" \in DOMAIN rule_in.thresholds THEN rule_in.thresholds.buy ELSE 2

RuleSellFraction ==
    IF "sell" \in DOMAIN rule_in.thresholds THEN rule_in.thresholds.sell ELSE 3

\* price < ma * (1 - b)
RulePriceBelow ==
    /\ ~rule_in.moving_avg.nan
    /\ rule_in.current_price * rule_in.moving_avg.den * 100
         < rule_in.moving_avg.num * (100 - RuleBuyFraction)

\* price > ma * (1 + s)
RulePriceAbove ==
    /\ ~rule_in.moving_avg.nan
    /\ rule_in.current_price * rule_in.moving_avg.den * 100
         > rule_in.moving_avg.num * (100 + RuleSellFraction)

(* C6, as claimed.  simple_strategy returns BUY iff price < ma*(1-b), SELL  *)
(* iff price > ma*(1+s), and HOLD otherwise.                                *)
C6_RuleAsClaimed ==
    /\ rule_out \in {"BUY", "SELL", "HOLD"}
    /\ rule_out = "BUY" <=> RulePriceBelow
    /\ rule_out = "SELL" <=> RulePriceAbove
    /\ rule_out = "HOLD" <=> (~RulePriceBelow /\ ~RulePriceAbove)

(* C6, amended.  simple_strategy returns BUY iff price < ma*(1-b), SELL iff *)
(* price > ma*(1+s) and not price < ma*(1-b), and HOLD otherwise: one of    *)
(* the three, BUY winning where both inequalities hold.                     *)
C6_RuleBuyFirst ==
    /\ rule_out \in {"BUY", "SELL", "HOLD"}
    /\ rule_out = "BUY" <=> RulePriceBelow
    /\ rule_out = "SELL" <=> (RulePriceAbove /\ ~RulePriceBelow)
    /\ rule_out = "HOLD" <=> (~RulePriceBelow /\ ~RulePriceAbove)

\* A call on which both inequalities hold.
C6_Witness ==
    /\ pc = "rule"
    /\ RulePriceBelow /\ RulePriceAbove
    /\ rule_out = "BUY"

(* C7.  In every record the portfolio value is the resulting balance plus   *)
(* the resulting position times the price of the record's row.              *)
C7_PortfolioValue ==
    \A k \in Records :
        simulation_logs[k].portfolio_value =
            simulation_logs[k].balance
              + simulation_logs[k].position * df_prices[k].price

\* A record made while a unit is held: the value is not the balance alone.
C7_Witness ==
    \E k \in Records :
        /\ simulation_logs[k].position = 1
        /\ simulation_logs[k].portfolio_value # simulation_logs[k].balance

(* C8.  With strategy 'simple' and the window w the run uses, the moving    *)
(* average is undefined on exactly the first w-1 rows, and every record of  *)
(* such a row is a HOLD of quantity 0 whose reason is insufficient data,    *)
(* with the initial balance and position 0.                                 *)
C8_WarmUpHolds ==
    strategy_name = "simple" =>
        \A k \in Records :
            /\ IsNa(df_prices[k].moving_avg) <=> k < window_size
            /\ k < window_size =>
                  /\ simulation_logs[k].side = "HOLD"
                  /\ simulation_logs[k].quantity = 0
                  /\ simulation_logs[k].reason = "insufficient"
                  /\ simulation_logs[k].balance = initial_balance
                  /\ simulation_logs[k].position = 0

\* A run that went through its warm-up and then traded.
C8_Witness ==
    /\ strategy_name = "simple"
    /\ \E k \in Records : simulation_logs[k].reason = "insufficient"
    /\ \E k \in Records : simulation_logs[k].side = "BUY"

(* C9.  With an unknown strategy name on a non-empty series, whatever the   *)
(* parameters, the run returns a log of one record per row, every record a  *)
(* HOLD with the initial balance and position 0.                            *)
C9_UnknownStrategyFullLog ==
    (UnknownStrategyRun /\ pc = "done") =>
        /\ result = "log"
        /\ Len(simulation_logs) = Len(data_source.rows)
        /\ \A k \in Records :
              /\ simulation_logs[k].side = "HOLD"
              /\ simulation_logs[k].balance = initial_balance
              /\ simulation_logs[k].position = 0

(* C10.  With an unknown strategy name on a non-empty series, the reason of *)
(* every record of the returned log cites that the strategy is not          *)
(* implemented.                                                             *)
C10_UnknownStrategyReason ==
    (UnknownStrategyRun /\ ReturnedLog) =>
        \A k \in Records : simulation_logs[k].reason = "not_implemented"

(* C11.  A run on a price series with zero rows returns None, never an      *)
(* empty log.                                                               *)
C11_EmptySeriesNoResult ==
    (data_source.kind = "csv" /\ data_source.rows = << >> /\ pc = "done") =>
        result = "none"

\* A run on zero rows that got through the configuration and the loop.
C11_Witness ==
    /\ data_source.kind = "csv" /\ data_source.rows = << >>
    /\ Truthy(current_strategy_thresholds)
    /\ pc = "done" /\ result = "none"

----------------------------------------------------------------------------
(* Runs on rows given in another order than that of their timestamps, and   *)
(* on the price series of the documented scenario.                          *)

ScenarioPrices == << 100, 98, 96, 94, 92, 150 >>

Reverse(s) == [k \in 1..Len(s) |-> s[Len(s) + 1 - k]]

\* s rotated left by r places.
Rotate(s, r) == [k \in 1..Len(s) |-> s[((k - 1 + r) % Len(s)) + 1]]

\* The orders in which the rows of a file are tried: every rotation of the
\* ascending and of the descending order.
Orderings(rows) ==
    IF rows = << >> THEN {rows}
    ELSE {Rotate(rows, r) : r \in 0..(Len(rows) - 1)}
         \cup {Rotate(Reverse(rows), r) : r \in 0..(Len(rows) - 1)}

OrderedSources ==
    UNION {{[kind |-> "csv", rows |-> o] : o \in Orderings(RowsOf(s))} :
              s \in PriceSeries \cup {ScenarioPrices}}

InitOrder ==
    /\ version \in Versions
    /\ data_source \in OrderedSources
    /\ strategy_name = "simple"
    /\ strategy_params \in {GivenParams([buy |-> 2, sell |-> 3]),
                            GivenParams([buy |-> 2, sell |-> 3, window_size |-> 2])}
    /\ initial_balance \in {90, 1000}
    /\ config_file = [exists |-> FALSE, config |-> EmptyDict]
    /\ pc = "load"
    /\ df_prices = << >>
    /\ current_strategy_thresholds = EmptyDict
    /\ window_size = Unbound
    /\ i = 1
    /\ balance = Unbound
    /\ position = Unbound
    /\ simulation_logs = << >>
    /\ result = "running"
    /\ RuleIdle

SpecOrder == InitOrder /\ [][Next]_vars

\* The timestamps of the input rows, and the price the input gives one.
InputTimestamps == {data_source.rows[k].timestamp : k \in 1..Len(data_source.rows)}

InputPriceAt(ts) ==
    LET k == CHOOSE j \in 1..Len(data_source.rows) : data_source.rows[j].timestamp = ts
    IN  data_source.rows[k].price

(* C12.  Whatever the order of the input rows: the records of the log are   *)
(* in ascending timestamp order, each for an input timestamp; a returned    *)
(* log has exactly one record per input timestamp; each row is processed    *)
(* once; and record k starts from the balance and position record k-1 left  *)
(* (the initial ones for the first), moved by the price of its own          *)
(* timestamp.                                                               *)
C12_OneRecordPerTimestampInOrder ==
    /\ \A k \in Records :
          /\ simulation_logs[k].timestamp \in InputTimestamps
          /\ \A j \in Records : j < k =>
                simulation_logs[j].timestamp < simulation_logs[k].timestamp
          /\ LET r == simulation_logs[k]
                 price == InputPriceAt(r.timestamp)
             IN  CASE r.side = "BUY" ->
                        r.balance = BalanceBefore(k) - price
                        /\ r.position = PositionBefore(k) + 1
                   [] r.side = "SELL" ->
                        r.balance = BalanceBefore(k) + price
                        /\ r.position = PositionBefore(k) - 1
                   [] OTHER ->
                        r.balance = BalanceBefore(k) /\ r.position = PositionBefore(k)
    /\ pc = "loop" =>
          /\ Len(simulation_logs) = i - 1
          /\ balance = BalanceBefore(i)
          /\ position = PositionBefore(i)
    /\ ReturnedLog =>
          /\ Len(simulation_logs) = Len(data_source.rows)
          /\ {simulation_logs[k].timestamp : k \in Records} = InputTimestamps

\* A returned log with a trade in it, from rows that were not in time order.
C12_Witness ==
    /\ ReturnedLog
    /\ \E k \in 1..(Len(data_source.rows) - 1) :
          data_source.rows[k].timestamp > data_source.rows[k + 1].timestamp
    /\ \E k \in Records : simulation_logs[k].side = "SELL"

\* The documented scenario as the input of a run: prices 100, 98, 96, 94,
\* 92, 150 at six increasing timestamps (rows in any order), window 5, buy
\* fraction 0.02, sell fraction 0.03, initial balance 1000.
ScenarioRun ==
    /\ SortIndex(data_source.rows) = RowsOf(ScenarioPrices)
    /\ strategy_name = "simple"
    /\ strategy_params = GivenParams([buy |-> 2, sell |-> 3])
    /\ initial_balance = 1000

(* C14.  The scenario run records HOLD at indices 0-3, an executed BUY at   *)
(* index 4, where the moving average is 96, leaving balance 908 and         *)
(* position 1, and an executed SELL at index 5 leaving balance 1058 and     *)
(* position 0.                                                              *)
C14_Scenario ==
    (ScenarioRun /\ pc = "done") =>
        /\ result = "log"
        /\ Len(simulation_logs) = 6
        /\ \A k \in 1..4 : simulation_logs[k].side = "HOLD"
        /\ df_prices[5].moving_avg = [nan |-> FALSE, num |-> 96 * 5, den |-> 5]
        /\ simulation_logs[5].side = "BUY"
        /\ simulation_logs[5].balance = 908
        /\ simulation_logs[5].position = 1
        /\ simulation_logs[6].side = "SELL"
        /\ simulation_logs[6].balance = 1058
        /\ simulation_logs[6].position = 0

----------------------------------------------------------------------------
(* analysis.py: the indicators.  A table is a record of its column names    *)
(* and columns; an indicator value is NaN or an exact fraction num/den.     *)

\* The 'Close' column as the rows rolling() runs over.
CloseRows(close) == [k \in 1..Len(close) |-> [price |-> close[k]]]

\* calculate_sma
calculate_sma(data, window) ==
    IF "Close" \notin data.columns THEN << >>
    ELSE RollingMean(CloseRows(data.Close), window)

\* data['Close'].diff(): NaN on the first row; "nan" marks it.
Diff(close) ==
    [k \in 1..Len(close) |->
        IF k = 1 THEN [nan |-> TRUE, v |-> 0]
        ELSE [nan |-> FALSE, v |-> close[k] - close[k - 1]]]

\* delta.where(delta > 0, 0): a comparison with NaN is False.
Gain(delta) ==
    [k \in 1..Len(delta) |-> IF ~delta[k].nan /\ delta[k].v > 0 THEN delta[k].v ELSE 0]

\* -delta.where(delta < 0, 0)
Loss(delta) ==
    [k \in 1..Len(delta) |-> IF ~delta[k].nan /\ delta[k].v < 0 THEN -delta[k].v ELSE 0]

RECURSIVE EwmScaled(_, _, _)
\* x.ewm(com=window-1, adjust=False).mean() at row k, times window^(k-1):
\* y[1] = x[1], y[k] = ((window-1)*y[k-1] + x[k]) / window.
EwmScaled(x, window, k) ==
    IF k = 1 THEN x[1]
    ELSE (window - 1) * EwmScaled(x, window, k - 1) + (window ^ (k - 2)) * x[k]

\* rsi = 100 - (100 / (1 + avg_gain / avg_loss)), from the two averages on
\* the common scale.  A zero avg_loss gives an infinite ratio and rsi 100
\* when avg_gain is positive, and 0/0 = NaN otherwise.
RsiRaw(avg_gain, avg_loss) ==
    IF avg_loss = 0
    THEN IF avg_gain = 0 THEN NaN ELSE [nan |-> FALSE, num |-> 100, den |-> 1]
    ELSE [nan |-> FALSE, num |-> 100 * (avg_gain + avg_loss) - 100 * avg_loss,
          den |-> avg_gain + avg_loss]

FillNa100_NoFill(x) == x

\* rsi.fillna(100)
FillNa100(x) == IF x.nan THEN [nan |-> FALSE, num |-> 100, den |-> 1] ELSE x

calculate_rsi_NoWarmUpMask(data, window) ==
    IF "Close" \notin data.columns THEN << >>
    ELSE LET delta == Diff(data.Close)
             gain == Gain(delta)
             loss == Loss(delta)
         IN  [k \in 1..Len(data.Close) |->
                FillNa100(RsiRaw(EwmScaled(gain, window, k),
                                 EwmScaled(loss, window, k)))]

\* calculate_rsi: the last step, rsi.iloc[:window] = pd.NA, blanks the first
\* window rows (all of them when the series is shorter).
calculate_rsi(data, window) ==
    IF "Close" \notin data.columns THEN << >>
    ELSE LET delta == Diff(data.Close)
             gain == Gain(delta)
             loss == Loss(delta)
         IN  [k \in 1..Len(data.Close) |->
                IF k <= window THEN NaN
                ELSE FillNa100(RsiRaw(EwmScaled(gain, window, k),
                                      EwmScaled(loss, window, k)))]

----------------------------------------------------------------------------
(* strategies.py: generate_signals.  Comparisons with NaN are False.        *)

\* data['Close'] > data['SMA'], row-wise
CloseAbove(close, sma) == ~sma.nan /\ close * sma.den > sma.num

\* data['Close'] < data['SMA']
CloseBelow(close, sma) == ~sma.nan /\ close * sma.den < sma.num

\* data['RSI'] < rsi_oversold
RsiBelow(rsi, level) == ~rsi.nan /\ rsi.num < level * rsi.den

\* data['RSI'] > rsi_overbought
RsiAbove(rsi, level) == ~rsi.nan /\ rsi.num > level * rsi.den

buy_condition_NaNFilledWithZero(close, sma, rsi, rsi_oversold) ==
    LET sma0 == IF sma.nan THEN [nan |-> FALSE, num |-> 0, den |-> 1] ELSE sma
        rsi0 == IF rsi.nan THEN [nan |-> FALSE, num |-> 0, den |-> 1] ELSE rsi
    IN  CloseAbove(close, sma0) /\ RsiBelow(rsi0, rsi_oversold)

buy_condition_AtOrAbove(close, sma, rsi, rsi_oversold) ==
    /\ ~sma.nan /\ close * sma.den >= sma.num
    /\ RsiBelow(rsi, rsi_oversold) /\ ~sma.nan /\ ~rsi.nan

\* strategies.py line 37
buy_condition(close, sma, rsi, rsi_oversold) ==
    CloseAbove(close, sma) /\ RsiBelow(rsi, rsi_oversold) /\ ~sma.nan /\ ~rsi.nan

\* strategies.py line 40
sell_condition(close, sma, rsi, rsi_overbought) ==
    CloseBelow(close, sma) /\ RsiAbove(rsi, rsi_overbought) /\ ~sma.nan /\ ~rsi.nan

\* series.isnull().all()
AllNull(series) == \A k \in 1..Len(series) : series[k].nan

\* A column assigned from a series: rows the series lacks become NaN.
Column(series, n) == [k \in 1..n |-> IF k <= Len(series) THEN series[k] ELSE NaN]

\* generate_signals.  The returned table is given by its SMA, RSI and Signal
\* columns; "empty" is the empty DataFrame returned for a table without rows.
generate_signals(data, sma_window, rsi_window, rsi_oversold, rsi_overbought) ==
    IF Len(data.Close) = 0
    THEN [empty |-> TRUE, SMA |-> << >>, RSI |-> << >>, Signal |-> << >>]
    ELSE
      LET n == Len(data.Close)
          sma == IF "SMA" \in data.columns THEN data.SMA
                 ELSE Column(calculate_sma(data, sma_window), n)
          rsi == IF "RSI" \in data.columns THEN data.RSI
                 ELSE Column(calculate_rsi(data, rsi_window), n)
      IN  [empty |-> FALSE, SMA |-> sma, RSI |-> rsi,
           Signal |->
             IF AllNull(sma) \/ AllNull(rsi) THEN [k \in 1..n |-> 0]
             ELSE [k \in 1..n |->
                     IF sell_condition(data.Close[k], sma[k], rsi[k], rsi_overbought)
                     THEN -1
                     ELSE IF buy_condition(data.Close[k], sma[k], rsi[k], rsi_oversold)
                     THEN 1
                     ELSE 0]]

----------------------------------------------------------------------------
(* Calls of the indicator functions and of generate_signals on small        *)
(* tables: one call per behaviour, from "call" to "returned".               *)

MaxCloses == 4

MaxWindow == 3

MaxSignalRows == 2

ClosePrices == {90, 100, 110}

CloseSeries == UNION {[1..n -> ClosePrices] : n \in 0..MaxCloses}

Windows == 1..MaxWindow

\* Tables for the indicator functions: with a Close column, or without one.
IndicatorTables ==
    {[columns |-> {"Close"}, Close |-> c] : c \in CloseSeries}
    \cup {[columns |-> {"Volume"}, Close |-> << >>]}

\* Values of precomputed SMA and RSI columns.
SmaValues == {NaN, [nan |-> FALSE, num |-> 100, den |-> 1]}

RsiValues == {NaN} \cup {[nan |-> FALSE, num |-> v, den |-> 1] : v \in {20, 50, 80}}

SignalRows == [Close : ClosePrices, SMA : SmaValues, RSI : RsiValues]

Col(rows, name) == [k \in 1..Len(rows) |-> rows[k][name]]

\* Tables for generate_signals: with the indicator columns already there
\* (as the dashboard passes them), or with the Close column alone.
SignalTables ==
    {[columns |-> {"Close", "SMA", "RSI"},
      Close |-> Col(rows, "Close"), SMA |-> Col(rows, "SMA"), RSI |-> Col(rows, "RSI")] :
        rows \in UNION {[1..n -> SignalRows] : n \in 0..MaxSignalRows}}
    \cup {[columns |-> {"Close"}, Close |-> c, SMA |-> << >>, RSI |-> << >>] :
            c \in CloseSeries}

\* (rsi_oversold, rsi_overbought): the defaults, and a crossed pair.
SignalLevels == {<< 30, 70 >>, << 60, 40 >>}

InitIndicators ==
    /\ version = "simulator"
    /\ data_source = [kind |-> "csv", rows |-> << >>]
    /\ strategy_name = "simple"
    /\ strategy_params = NoParams
    /\ initial_balance = 0
    /\ config_file = [exists |-> FALSE, config |-> EmptyDict]
    /\ pc = "call"
    /\ df_prices = << >>
    /\ current_strategy_thresholds = EmptyDict
    /\ window_size = Unbound
    /\ i = 1
    /\ balance = Unbound
    /\ position = Unbound
    /\ simulation_logs = << >>
    /\ result = "running"
    /\ RuleIdle

SimulationIdle ==
    UNCHANGED <<version, data_source, strategy_name, strategy_params,
                initial_balance, config_file, df_prices,
                current_strategy_thresholds, window_size, i, balance, position,
                simulation_logs, result, rule_in, rule_out>>

CallSma ==
    /\ pc = "call"
    /\ \E data \in IndicatorTables, w \in Windows :
          /\ fn_in' = [fn |-> "calculate_sma", data |-> data, window |-> w]
          /\ fn_out' = calculate_sma(data, w)
    /\ pc' = "returned"
    /\ SimulationIdle

CallRsi ==
    /\ pc = "call"
    /\ \E data \in IndicatorTables, w \in Windows :
          /\ fn_in' = [fn |-> "calculate_rsi", data |-> data, window |-> w]
          /\ fn_out' = calculate_rsi(data, w)
    /\ pc' = "returned"
    /\ SimulationIdle

CallSignals ==
    /\ pc = "call"
    /\ \E data \in SignalTables, sw \in Windows, rw \in Windows, lv \in SignalLevels :
          /\ fn_in' = [fn |-> "generate_signals", data |-> data,
                       sma_window |-> sw, rsi_window |-> rw,
                       rsi_oversold |-> lv[1], rsi_overbought |-> lv[2]]
          /\ fn_out' = generate_signals(data, sw, rw, lv[1], lv[2])
    /\ pc' = "returned"
    /\ SimulationIdle

NextIndicators ==
    \/ CallSma
    \/ CallRsi
    \/ CallSignals

SpecIndicators == InitIndicators /\ [][NextIndicators]_vars

----------------------------------------------------------------------------
(* The rows of the table generate_signals returned. *)

SignalsReturned == fn_in.fn = "generate_signals" /\ pc = "returned" /\ ~fn_out.empty

SignalRowsOut == 1..Len(fn_out.Signal)

\* Both indicators of row k are defined.
BothDefined(k) == ~fn_out.SMA[k].nan /\ ~fn_out.RSI[k].nan

\* Close > SMA and RSI < oversold on row k, both being defined.
BuyApplies(k) ==
    /\ BothDefined(k)
    /\ fn_in.data.Close[k] * fn_out.SMA[k].den > fn_out.SMA[k].num
    /\ fn_out.RSI[k].num < fn_in.rsi_oversold * fn_out.RSI[k].den

\* Close < SMA and RSI > overbought on row k, both being defined.
SellApplies(k) ==
    /\ BothDefined(k)
    /\ fn_in.data.Close[k] * fn_out.SMA[k].den < fn_out.SMA[k].num
    /\ fn_out.RSI[k].num > fn_in.rsi_overbought * fn_out.RSI[k].den

(* C15.  On every row of the table given to generate_signals the Signal is  *)
(* 1 iff Close > SMA and RSI < oversold with both indicators defined, -1    *)
(* iff Close < SMA and RSI > overbought with both defined, and 0 in every   *)
(* other case; the two conditions never hold on the same row.               *)
C15_SignalMatchesConditions ==
    SignalsReturned =>
        /\ Len(fn_out.Signal) = Len(fn_in.data.Close)
        /\ \A k \in SignalRowsOut :
              /\ fn_out.Signal[k] \in {1, -1, 0}
              /\ fn_out.Signal[k] = 1 <=> BuyApplies(k)
              /\ fn_out.Signal[k] = -1 <=> SellApplies(k)
              /\ ~(BuyApplies(k) /\ SellApplies(k))

\* A returned table with a BUY row and a SELL row.
C15_Witness ==
    /\ SignalsReturned
    /\ \E k \in SignalRowsOut : fn_out.Signal[k] = 1
    /\ \E k \in SignalRowsOut : fn_out.Signal[k] = -1

(* C16.  generate_signals gives Signal 0 to every row whose moving average  *)
(* or oscillator is undefined, whether or not an indicator is undefined on  *)
(* all rows, for any oversold and overbought levels.                        *)
C16_UndefinedIndicatorHolds ==
    SignalsReturned =>
        \A k \in SignalRowsOut : ~BothDefined(k) => fn_out.Signal[k] = 0

\* A table that did not take the early return: one row has an undefined
\* indicator, another row got a BUY or SELL.
C16_Witness ==
    /\ SignalsReturned
    /\ \E k \in SignalRowsOut : ~BothDefined(k) /\ fn_out.Signal[k] = 0
    /\ \E k \in SignalRowsOut : fn_out.Signal[k] # 0

----------------------------------------------------------------------------
(* The parameter values a run uses. *)

\* The configuration step has run and found parameters.
ConfigLoaded == pc = "loop" \/ (pc = "done" /\ window_size # Unbound)

\* The dict the deviation rule is called with in this run.
ThresholdsForRule ==
    IF version = "simulator" THEN SimRuleThresholds(current_strategy_thresholds)
    ELSE StratRuleThresholds(current_strategy_thresholds)

\* The value the run uses for parameter k: the rule's buy_threshold and
\* sell_threshold, and the window of the rolling mean.
UsedValue(k) ==
    IF k = "buy" THEN Get(ThresholdsForRule, "buy", DefaultBuy)
    ELSE IF k = "sell" THEN Get(ThresholdsForRule, "sell", DefaultSell)
    ELSE window_size

\* The parameters a run of this strategy reads.
UsedParams ==
    IF strategy_name = "simple" THEN {"buy", "sell", "window_size"} ELSE {"window_size"}

\* The keys of the caller's record.
SuppliedParams == IF strategy_params.is_none THEN {} ELSE DOMAIN strategy_params.dict

\* The configuration file has a value for k in the strategy's section.
FileSupplies(k) ==
    /\ config_file.exists
    /\ strategy_name \in DOMAIN config_file.config
    /\ k \in DOMAIN config_file.config[strategy_name]

HardCodedDefault(k) ==
    IF k = "buy" THEN DefaultBuy ELSE IF k = "sell" THEN DefaultSell
    ELSE DEFAULT_WINDOW_SIZE

(* C17.  Every parameter the caller's record contains is used with the      *)
(* caller's value, whatever the configuration file and the defaults hold.   *)
C17_CallerValueUsed ==
    ConfigLoaded =>
        \A k \in UsedParams \cap SuppliedParams : UsedValue(k) = strategy_params.dict[k]

(* C18.  Every parameter missing from the caller's record is used with the  *)
(* file's value when the file supplies it and with the hard-coded default   *)
(* (buy 0.02, sell 0.03, window 5) otherwise; a caller record that lacks    *)
(* some parameter leaves none undefined and does not make the run fail.     *)
C18_GapsFilledFromFileThenDefaults ==
    /\ ConfigLoaded =>
          \A k \in UsedParams \ SuppliedParams :
              /\ UsedValue(k) # PyNone
              /\ UsedValue(k) = IF FileSupplies(k) THEN config_file.config[strategy_name][k]
                                ELSE HardCodedDefault(k)
    /\ (SuppliedParams # {} /\ UsedParams \ SuppliedParams # {}) => result # "fault"

----------------------------------------------------------------------------
(* The series calculate_sma and calculate_rsi returned. *)

\* The function fn returned for a table that has a Close column.
IndicatorReturned(fn) ==
    fn_in.fn = fn /\ pc = "returned" /\ "Close" \in fn_in.data.columns

\* close[lo] + ... + close[hi]
RECURSIVE SumOfCloses(_, _, _)
SumOfCloses(close, lo, hi) ==
    IF lo > hi THEN 0 ELSE close[lo] + SumOfCloses(close, lo + 1, hi)

\* The series that agree with close on indices 1..k and are at least as long.
SameUpTo(close, k) ==
    {other \in CloseSeries : Len(other) >= k /\ \A j \in 1..k : other[j] = close[j]}

(* C19.  calculate_sma returns one value per price; the value at the k-th   *)
(* price (index i = k-1) is undefined for k < w and otherwise is the sum of *)
(* the w prices k-w+1..k divided by w; it is the same for every series that *)
(* has the same prices up to k, whatever the later prices are.              *)
C19_TrailingMeanNoLookAhead ==
    IndicatorReturned("calculate_sma") =>
        LET close == fn_in.data.Close
            w == fn_in.window
        IN  /\ Len(fn_out) = Len(close)
            /\ \A k \in 1..Len(close) :
                  /\ k < w => fn_out[k].nan
                  /\ k >= w =>
                        /\ ~fn_out[k].nan
                        /\ fn_out[k].den = w
                        /\ fn_out[k].num = SumOfCloses(close, k - w + 1, k)
                  /\ \A other \in SameUpTo(close, k) :
                        calculate_sma([columns |-> {"Close"}, Close |-> other], w)[k]
                            = fn_out[k]

\* A window of two or more, a defined mean at a price that is followed by a
\* different price and preceded by a price outside its window.
C19_Witness ==
    /\ IndicatorReturned("calculate_sma")
    /\ fn_in.window >= 2
    /\ \E k \in 1..(Len(fn_in.data.Close) - 1) :
          /\ k > fn_in.window
          /\ ~fn_out[k].nan
          /\ fn_in.data.Close[k + 1] # fn_in.data.Close[k]
          /\ fn_in.data.Close[k - fn_in.window] # fn_in.data.Close[k]

(* C20.  For a series with fewer prices than the window, calculate_sma and  *)
(* calculate_rsi each return a series that is undefined at every index.     *)
C20_ShortSeriesUndefined ==
    (/\ IndicatorReturned("calculate_sma") \/ IndicatorReturned("calculate_rsi")
     /\ Len(fn_in.data.Close) < fn_in.window) =>
        /\ Len(fn_out) = Len(fn_in.data.Close)
        /\ \A k \in 1..Len(fn_out) : fn_out[k].nan

\* calculate_rsi on a rising series shorter than the window: the smoothed
\* loss is zero from the first row on.
C20_Witness ==
    /\ IndicatorReturned("calculate_rsi")
    /\ Len(fn_in.data.Close) >= 2
    /\ Len(fn_in.data.Close) < fn_in.window
    /\ \A k \in 2..Len(fn_in.data.Close) : fn_in.data.Close[k] > fn_in.data.Close[k - 1]
    /\ \A k \in 1..Len(fn_out) : fn_out[k].nan

----------------------------------------------------------------------------
(* The oscillator's range. *)

\* avg_loss at row k of the call's series is exactly zero.
SmoothedLossZero(k) ==
    EwmScaled(Loss(Diff(fn_in.data.Close)), fn_in.window, k) = 0

\* The value x is exactly 100.
IsHundred(x) == ~x.nan /\ x.num = 100 * x.den

(* C21.  Every defined value calculate_rsi returns lies in [0, 100], and at *)
(* every index >= w (row k > w) where the smoothed loss is exactly zero the *)
(* value is exactly 100.                                                    *)
C21_RsiRangeAndZeroLoss ==
    IndicatorReturned("calculate_rsi") =>
        \A k \in 1..Len(fn_out) :
            /\ ~fn_out[k].nan =>
                  /\ fn_out[k].den > 0
                  /\ 0 <= fn_out[k].num
                  /\ fn_out[k].num <= 100 * fn_out[k].den
            /\ (k > fn_in.window /\ SmoothedLossZero(k)) => IsHundred(fn_out[k])

\* One series with a row past the warm-up whose smoothed loss is zero, on
\* which both smoothed averages are zero (the 0/0 case), and a row whose
\* value is defined and below 100.
C21_Witness ==
    /\ IndicatorReturned("calculate_rsi")
    /\ \E k \in 1..Len(fn_out) :
          /\ k > fn_in.window
          /\ SmoothedLossZero(k)
          /\ EwmScaled(Gain(Diff(fn_in.data.Close)), fn_in.window, k) = 0
          /\ IsHundred(fn_out[k])
    /\ \E k \in 1..Len(fn_out) :
          /\ ~fn_out[k].nan
          /\ fn_out[k].num < 100 * fn_out[k].den

----------------------------------------------------------------------------
(* Malformed input. *)

\* The data lacks the timestamp field or the price field.
MalformedInput == data_source.kind \in MalformedKinds

(* C22.  When the data lacks the timestamp or the price field, the run ends *)
(* in the loading step with no result: no balance or position is ever       *)
(* bound, no parameters are looked up and no record is made.                *)
C22_MalformedInputFailsFast ==
    MalformedInput =>
        /\ pc \in {"load", "done"}
        /\ pc = "done" => result = "none"
        /\ balance = Unbound
        /\ position = Unbound
        /\ window_size = Unbound
        /\ simulation_logs = << >>

\* A run on data without the price field has ended.
C22_Witness ==
    /\ data_source.kind = "missing_price"
    /\ pc = "done"
    /\ result = "none"
    /\ balance = Unbound

----------------------------------------------------------------------------
(* The configured window. *)

\* The window length the run's parameters give, 5 when they give none.
ConfiguredWindow == Get(current_strategy_thresholds, "window_size", DEFAULT_WINDOW_SIZE)

(* C23.  The window of the moving average is the window length given in the *)
(* run's strategy parameters, and 5 when they give none; with strategy      *)
(* 'simple' the records before the w-th are the warm-up HOLDs and the w-th  *)
(* and later records are decided by the deviation rule.                     *)
C23_ConfiguredWindowUsed ==
    ConfigLoaded =>
        /\ window_size = ConfiguredWindow
        /\ \A k \in 1..Len(df_prices) :
              IsNa(df_prices[k].moving_avg) <=> k < ConfiguredWindow
        /\ strategy_name = "simple" =>
              \A k \in Records :
                  simulation_logs[k].reason = "insufficient" <=> k < ConfiguredWindow

----------------------------------------------------------------------------
(* The buy path of strategy.py. *)

(* C24.  In strategy.py with strategy 'simple', the step at a row where the *)
(* deviation rule proposes BUY ends the run with an unhandled error and no  *)
(* log, whatever the balance and position; no record of this version is a   *)
(* BUY and every record's position is 0.                                    *)
C24_BuyPathAborts ==
    [][version = "strategy" =>
        /\ RuleProposes("BUY") =>
              /\ pc' = "done"
              /\ result' = "fault"
              /\ simulation_logs' = simulation_logs
        /\ \A k \in 1..Len(simulation_logs') :
              /\ simulation_logs'[k].side # "BUY"
              /\ simulation_logs'[k].position = 0
        /\ position' \in {Unbound, 0}]_vars

\* The run of strategy.py aborted at a row where the rule proposes BUY, the
\* balance covers the price and the position is 0, after making records.
C24_Witness ==
    /\ version = "strategy"
    /\ strategy_name = "simple"
    /\ pc = "done"
    /\ result = "fault"
    /\ simulation_logs # << >>
    /\ ~IsNa(df_prices[i].moving_avg)
    /\ simple_strategy(df_prices[i].price, df_prices[i].moving_avg,
                       StratRuleThresholds(current_strategy_thresholds)) = "BUY"
    /\ balance >= df_prices[i].price
    /\ position = 0

----------------------------------------------------------------------------
(* The trades of a log. *)

\* The records up to k whose action is side.
SideRecords(side, k) == {j \in 1..k : simulation_logs[j].side = side}

\* The trades (non-HOLD records) before record k.
TradesBefore(k) == {j \in 1..(k - 1) : simulation_logs[j].side # "HOLD"}

\* The last trade before record k, when there is one.
LastTradeBefore(k) == CHOOSE j \in TradesBefore(k) : \A m \in TradesBefore(k) : m <= j

(* C25.  In a log of simulator.py the first trade is a BUY, the trade that  *)
(* follows a BUY is a SELL and the trade that follows a SELL is a BUY; at   *)
(* every record the BUYs so far minus the SELLs so far equal the recorded   *)
(* position.                                                                *)
C25_TradesAlternate ==
    version = "simulator" =>
        \A k \in Records :
            /\ simulation_logs[k].side \in {"BUY", "SELL", "HOLD"}
            /\ simulation_logs[k].side # "HOLD" =>
                  IF TradesBefore(k) = {} THEN simulation_logs[k].side = "BUY"
                  ELSE simulation_logs[k].side # simulation_logs[LastTradeBefore(k)].side
            /\ Cardinality(SideRecords("BUY", k)) - Cardinality(SideRecords("SELL", k))
                  = simulation_logs[k].position

\* A returned log of simulator.py with a BUY, a later SELL and a BUY after it.
C25_Witness ==
    /\ version = "simulator"
    /\ ReturnedLog
    /\ \E a, b, c \in Records :
          /\ a < b /\ b < c
          /\ simulation_logs[a].side = "BUY"
          /\ simulation_logs[b].side = "SELL"
          /\ simulation_logs[c].side = "BUY"

----------------------------------------------------------------------------
(* Records against their predecessors. *)

\* Record k is an executed trade.
IsTrade(k) == simulation_logs[k].side \in {"BUY", "SELL"}

(* C26.  In a log of either version a HOLD record carries the balance and   *)
(* position of the preceding record (the initial balance and 0 for the      *)
(* first); the position differs from the preceding one iff the action is    *)
(* BUY (by +1) or SELL (by -1); the quantity is 1 on BUY and SELL records   *)
(* and 0 on HOLD records.                                                   *)
C26_RecordsFollowPredecessor ==
    \A k \in Records :
        LET r == simulation_logs[k]
        IN  /\ r.side = "HOLD" =>
                  /\ r.balance = BalanceBefore(k)
                  /\ r.position = PositionBefore(k)
            /\ r.position # PositionBefore(k) <=> IsTrade(k)
            /\ r.side = "BUY" => r.position = PositionBefore(k) + 1
            /\ r.side = "SELL" => r.position = PositionBefore(k) - 1
            /\ r.quantity = 1 <=> IsTrade(k)
            /\ r.quantity = 0 <=> r.side = "HOLD"

\* A returned log with a BUY, a HOLD for a blocked BUY while the share is
\* held, and a SELL.
C26_Witness ==
    /\ ReturnedLog
    /\ \E a, b, c \in Records :
          /\ a < b /\ b < c
          /\ simulation_logs[a].side = "BUY"
          /\ simulation_logs[b].side = "HOLD"
          /\ simulation_logs[b].reason = "buy_blocked"
          /\ simulation_logs[b].position = 1
          /\ simulation_logs[c].side = "SELL"

----------------------------------------------------------------------------
(* The cash of a log.  Record k is made from row k of the sorted table. *)

PriceAt(k) == df_prices[k].price

\* Sum of the SELL prices minus sum of the BUY prices over records 1..k.
RECURSIVE NetCashFlow(_)
NetCashFlow(k) ==
    IF k = 0 THEN 0
    ELSE NetCashFlow(k - 1)
         + (IF simulation_logs[k].side = "SELL" THEN PriceAt(k)
            ELSE IF simulation_logs[k].side = "BUY" THEN 0 - PriceAt(k)
            ELSE 0)

\* Sum of (sell price - buy price) over the round trips completed by record
\* k: each SELL with the BUY that is the trade before it.
RECURSIVE RoundTripGains(_)
RoundTripGains(k) ==
    IF k = 0 THEN 0
    ELSE RoundTripGains(k - 1)
         + (IF simulation_logs[k].side = "SELL" /\ TradesBefore(k) # {}
            THEN PriceAt(k) - PriceAt(LastTradeBefore(k))
            ELSE 0)

(* C27.  At every record k of a log the balance is the initial balance      *)
(* minus the prices at the BUY records up to k plus the prices at the SELL  *)
(* records up to k; where the position is 0 the portfolio value is the      *)
(* initial balance plus the gains of the completed round trips; and on a    *)
(* BUY or SELL record the portfolio value is what the balance and position  *)
(* held before the trade are worth at the trade price.                      *)
C27_BalanceIsCashFlow ==
    \A k \in Records :
        LET r == simulation_logs[k]
        IN  /\ r.balance = initial_balance + NetCashFlow(k)
            /\ r.position = 0 => r.portfolio_value = initial_balance + RoundTripGains(k)
            /\ IsTrade(k) =>
                  r.portfolio_value = BalanceBefore(k) + PositionBefore(k) * PriceAt(k)

\* A returned log that ends flat after a round trip with a gain: bought at
\* one price, sold at a higher one.
C27_Witness ==
    /\ ReturnedLog
    /\ simulation_logs[Len(simulation_logs)].position = 0
    /\ simulation_logs[Len(simulation_logs)].portfolio_value > initial_balance
    /\ \E a, b \in Records :
          /\ a < b
          /\ simulation_logs[a].side = "BUY"
          /\ simulation_logs[b].side = "SELL"
          /\ PriceAt(b) > PriceAt(a)

====
